---- MODULE Spec2Model ----
(***************************************************************************)
(* Model of secret.py: the credential scan built on an external detector.  *)
(*   locate_secret_in_repo      full-text fallback search (lines 15-29)    *)
(*   run_credential_scan_agent  invoke, parse, repair, score (32-106)      *)
(*   scan_github_repo           clone into a temp dir, scan, remove        *)
(*                              (lines 109-120)                            *)
(* Python values are tagged records; text is a sequence of characters, so  *)
(* that `in` is a real substring test.                                     *)
(***************************************************************************)
EXTENDS Integers, Sequences, FiniteSets, TLC

VARIABLES
    lpc, needle, res1, res2,                 \* direct calls of locate_secret_in_repo
    tree,                                    \* the files under repo_path, in rglob order
    mode, pc, temp_dir, rm_tried, rm_ok,     \* scan_github_repo
    exc, ret,                                \* how the call ended: raised or returned
    runs, result,                            \* subprocess.run invocations so far, the last result
    i, findings, spy, found, report          \* run_credential_scan_agent

lvars == <<lpc, needle, res1, res2>>
svars == <<mode, pc, temp_dir, rm_tried, rm_ok, exc, ret,
           runs, result, i, findings, spy, found, report>>
vars == <<lpc, needle, res1, res2, tree, mode, pc, temp_dir, rm_tried, rm_ok,
          exc, ret, runs, result, i, findings, spy, found, report>>

----------------------------------------------------------------------------
(* Bounds *)

MaxFiles == 2
MaxLines == 2

\* the lines a file is made of, and the texts searched for
LineTexts == {<<"a">>, <<"b">>, <<"b", "a">>}
NeedleTexts == {<<>>, <<"a">>, <<"b">>, <<"a", "b">>}

----------------------------------------------------------------------------
(* Python values *)

None == [k |-> "none"]
Str(s) == [k |-> "str", s |-> s]
Num(n) == [k |-> "num", n |-> n]
Dict(f) == [k |-> "dict", f |-> f]

\* bool(v): None, "", 0 and {} are false
Truthy(v) ==
    CASE v.k = "none" -> FALSE
      [] v.k = "str" -> v.s # <<>>
      [] v.k = "num" -> v.n # 0
      [] v.k = "dict" -> DOMAIN v.f # {}

\* `a in b` for two str: a occurs in b as a contiguous run
IsSubstr(a, b) ==
    \E off \in 0..(Len(b) - Len(a)) :
        \A j \in 1..Len(a) : b[off + j] = a[j]

----------------------------------------------------------------------------
(* locate_secret_in_repo *)

NotFound == [file |-> None, line |-> None]

\* variant: enumerate(f) without start=1 numbers the lines from 0
RECURSIVE ScanLines_zero(_, _, _)
ScanLines_zero(lines, raw_secret, n) ==
    IF n > Len(lines) THEN [t |-> "miss", line |-> 0]
    ELSE IF raw_secret.k # "str" THEN [t |-> "raise", line |-> 0]
    ELSE IF IsSubstr(raw_secret.s, lines[n]) THEN [t |-> "hit", line |-> n - 1]
    ELSE ScanLines_zero(lines, raw_secret, n + 1)

\* for i, line in enumerate(f, start=1): if raw_secret in line: return ..., i
\* "hit" with the 1-based index, "raise" (TypeError of `in` on a non-str
\* left operand) or "miss" when the lines are exhausted
RECURSIVE ScanLines(_, _, _)
ScanLines(lines, raw_secret, n) ==
    IF n > Len(lines) THEN [t |-> "miss", line |-> 0]
    ELSE IF raw_secret.k # "str" THEN [t |-> "raise", line |-> 0]
    ELSE IF IsSubstr(raw_secret.s, lines[n]) THEN [t |-> "hit", line |-> n]
    ELSE ScanLines(lines, raw_secret, n + 1)

\* the for loop over rglob("*"): directories fail is_file(), open() of a
\* file without read permission raises PermissionError -> continue
RECURSIVE Walk(_, _, _, _)
Walk(t, raw_secret, j, opened) ==
    IF j > Len(t) THEN [loc |-> NotFound, raised |-> FALSE, opened |-> opened]
    ELSE IF t[j].kind = "dir" THEN Walk(t, raw_secret, j + 1, opened)
    ELSE IF t[j].kind = "denied" THEN Walk(t, raw_secret, j + 1, opened + 1)
    ELSE LET s == ScanLines(t[j].lines, raw_secret, 1) IN
         CASE s.t = "hit" ->
                [loc |-> [file |-> Str(t[j].path), line |-> Num(s.line)],
                 raised |-> FALSE, opened |-> opened + 1]
           [] s.t = "raise" ->
                [loc |-> NotFound, raised |-> TRUE, opened |-> opened + 1]
           [] OTHER -> Walk(t, raw_secret, j + 1, opened + 1)

locate_secret_in_repo(repo, raw_secret) ==
    IF ~Truthy(raw_secret)
    THEN [loc |-> NotFound, raised |-> FALSE, opened |-> 0]
    ELSE Walk(repo, raw_secret, 1, 0)

----------------------------------------------------------------------------
(* File trees *)

Digit == <<"1", "2", "3", "4">>
PathOf(j) == <<"f", Digit[j]>>

LineSeqs == UNION {[1..m -> LineTexts] : m \in 0..MaxLines}

\* a file that cannot be opened still has content; one line of it is enough
Entries(j) ==
    {[path |-> PathOf(j), kind |-> "file", lines |-> ls] : ls \in LineSeqs}
    \cup {[path |-> PathOf(j), kind |-> "denied", lines |-> ls] :
             ls \in {l \in LineSeqs : Len(l) <= 1}}
    \cup {[path |-> PathOf(j), kind |-> "dir", lines |-> <<>>]}

AllTrees ==
    UNION {{t \in [1..m -> UNION {Entries(j) : j \in 1..m}] :
               \A j \in 1..m : t[j].path = PathOf(j)} : m \in 0..MaxFiles}

Needles == {None} \cup {Str(s) : s \in NeedleTexts}

----------------------------------------------------------------------------
(* Direct calls of locate_secret_in_repo on an unchanged tree *)

NoRes == [loc |-> NotFound, raised |-> FALSE, opened |-> 0]

InitIdle ==
    /\ mode = "none" /\ pc = "idle" /\ temp_dir = "none"
    /\ rm_tried = FALSE /\ rm_ok = FALSE
    /\ exc = "none" /\ ret = None
    /\ runs = <<>> /\ result = None
    /\ i = 0 /\ findings = <<>> /\ spy = FALSE /\ found = NotFound
    /\ report = None

InitLocate ==
    /\ tree \in AllTrees
    /\ needle \in Needles
    /\ lpc = "call1" /\ res1 = NoRes /\ res2 = NoRes
    /\ InitIdle

LocateFirst ==
    /\ lpc = "call1"
    /\ res1' = locate_secret_in_repo(tree, needle)
    /\ lpc' = "call2"
    /\ UNCHANGED <<needle, res2, tree>> /\ UNCHANGED svars

LocateAgain ==
    /\ lpc = "call2"
    /\ res2' = locate_secret_in_repo(tree, needle)
    /\ lpc' = "done"
    /\ UNCHANGED <<needle, res1, tree>> /\ UNCHANGED svars

NextLocate == LocateFirst \/ LocateAgain

SpecLocate == InitLocate /\ [][NextLocate]_vars

----------------------------------------------------------------------------
(* Detector output *)

ScoreCap == 25
DetailsCap == 20

MaxRepeat == 26
MaxShort == 1

Opt(key, vals) == {<<>>} \cup {key :> v : v \in vals}

\* SourceMetadata.Data, with either key possibly missing
DataDicts ==
    {Dict(a @@ b) :
        a \in Opt("file", {None, Str(<<>>), Str(<<"x">>)}),
        b \in Opt("line", {Num(0), Num(3)})}

\* SourceMetadata: missing, null, or an object whose Data is missing, null
\* or an object
Metas ==
    Opt("SourceMetadata",
        {None} \cup {Dict(d) : d \in Opt("Data", {None} \cup DataDicts)})

Raws == Opt("Raw", {Str(<<>>), Str(<<"a">>), Num(7)})

Records ==
    {Dict(m @@ r @@ ("DetectorName" :> Str(<<"D">>))) : m \in Metas, r \in Raws}
    \cup {Dict(r) : r \in Raws}

Blank == [t |-> "blank", v |-> None]
Garbage == [t |-> "text", v |-> None]
Json(v) == [t |-> "json", v |-> v]

\* one line of stdout: whitespace only, text that is not JSON, or a JSON value
Lines == {Blank, Garbage, Json(Num(42))} \cup {Json(r) : r \in Records}

RecA ==
    Json(Dict(("SourceMetadata" :>
                  Dict("Data" :> Dict(("file" :> Str(<<"x">>)) @@ ("line" :> Num(3)))))
              @@ ("Raw" :> Str(<<"a">>)) @@ ("DetectorName" :> Str(<<"D">>))))
RecB ==
    Json(Dict(("SourceMetadata" :>
                  Dict("Data" :> Dict(("file" :> Str(<<"y">>)) @@ ("line" :> Num(1)))))
              @@ ("Raw" :> Str(<<"b">>)) @@ ("DetectorName" :> Str(<<"E">>))))

Repeat(x, n) == [j \in 1..n |-> x]
Insert(s, p, x) == SubSeq(s, 1, p) \o <<x>> \o SubSeq(s, p + 1, Len(s))

ShortOutputs == UNION {[1..m -> Lines] : m \in 0..MaxShort}

\* a run of one record, alone or with one other line before, inside or after
LongOutputs ==
    {Repeat(RecA, n) : n \in 0..MaxRepeat}
    \cup UNION {{Insert(Repeat(RecA, n), p, x) :
                    p \in {0, n \div 2, n},
                    x \in {Blank, Garbage, Json(Num(42)), RecB}} :
                 n \in 0..MaxRepeat}

Outputs == ShortOutputs \cup LongOutputs

FlagMsg == <<"unknown", "long", "flag", "'--path'">>
Stderrs ==
    {<<>>,
     <<"trufflehog:", "error:">> \o FlagMsg \o <<"try", "--help">>,
     <<"unknown", "long", "flag", "'--json'">>}

\* what subprocess.run can do: raise FileNotFoundError (no executable),
\* raise another OSError, or return a CompletedProcess
Raises(e) == [kind |-> e, returncode |-> 0, stderr |-> <<>>, stdout |-> <<>>]
RunOutcomes ==
    {Raises("FileNotFoundError"), Raises("PermissionError")}
    \cup {[kind |-> "ran", returncode |-> rc, stderr |-> e, stdout |-> o] :
            rc \in {0, 1}, e \in Stderrs, o \in Outputs}

\* the trees a scan runs on
ScanTrees ==
    {<<>>,
     <<[path |-> PathOf(1), kind |-> "denied", lines |-> <<<<"a">>>>],
       [path |-> PathOf(2), kind |-> "file",
        lines |-> << <<"b">>, <<"b", "a">>, <<"a">> >>]>>}

----------------------------------------------------------------------------
(* run_credential_scan_agent *)

\* variant: check=True makes a non-zero exit raise CalledProcessError
RunRaises_check(o) == o.kind # "ran" \/ o.returncode # 0

\* subprocess.run(...) without check=True raises only when the process
\* cannot be started
RunRaises(o) == o.kind # "ran"

\* variant: retry on any non-zero exit
NeedsRetry_anyfail(o) == o.returncode # 0

\* result.returncode != 0 and "unknown long flag '--path'" in result.stderr
NeedsRetry(o) == o.returncode # 0 /\ IsSubstr(FlagMsg, o.stderr)

\* d.get(key, default)
DictGet(d, key, default) == IF key \in DOMAIN d.f THEN d.f[key] ELSE default
EmptyDict == Dict(<<>>)

\* variant: keep what the detector supplied, fill in only what is missing
Assigned_keep(file, line_no, loc) ==
    [file |-> IF Truthy(file) THEN file ELSE loc.file,
     line |-> IF Truthy(line_no) THEN line_no ELSE loc.line]

\* file, line_no = locate_secret_in_repo(repo_path, raw)
Assigned(file, line_no, loc) == [file |-> loc.file, line |-> loc.line]

NoFinding == [file |-> None, line |-> None, detector |-> None, raw |-> None]

\* variant: fall back only when both are missing
Fallback_both(file, line_no, raw) == (~Truthy(file) /\ ~Truthy(line_no)) /\ Truthy(raw)

\* (not file or not line_no) and raw
Fallback(file, line_no, raw) == (~Truthy(file) \/ ~Truthy(line_no)) /\ Truthy(raw)

\* the loop body for one parsed value `data`: .get on a value that is not a
\* dict raises AttributeError, the fallback search may raise TypeError
Body(data, repo) ==
    LET raised(e, called) ==
            [t |-> "raise", e |-> e, finding |-> NoFinding,
             spy |-> called, found |-> NotFound]
    IN
    IF data.k # "dict" THEN raised("AttributeError", FALSE)
    ELSE LET sm == DictGet(data, "SourceMetadata", EmptyDict) IN
    IF sm.k # "dict" THEN raised("AttributeError", FALSE)
    ELSE LET dd == DictGet(sm, "Data", EmptyDict) IN
    IF dd.k # "dict" THEN raised("AttributeError", FALSE)
    ELSE LET file == DictGet(dd, "file", None)
             line_no == DictGet(dd, "line", None)
             raw == DictGet(data, "Raw", None)
             det == DictGet(data, "DetectorName", None)
         IN
         IF Fallback(file, line_no, raw)
         THEN LET r == locate_secret_in_repo(repo, raw) IN
              IF r.raised THEN raised("TypeError", TRUE)
              ELSE [t |-> "finding", e |-> "none",
                    finding |-> [file |-> Assigned(file, line_no, r.loc).file,
                                 line |-> Assigned(file, line_no, r.loc).line,
                                 detector |-> det, raw |-> raw],
                    spy |-> TRUE, found |-> r.loc]
         ELSE [t |-> "finding", e |-> "none",
               finding |-> [file |-> file, line |-> line_no,
                            detector |-> det, raw |-> raw],
               spy |-> FALSE, found |-> NotFound]

Min(a, b) == IF a < b THEN a ELSE b

Sentinel == [info |-> "No secrets found"]

\* the two except clauses
ErrorReport(e) ==
    [agent |-> "credential_scan", score |-> 0,
     details |->
        IF e = "FileNotFoundError"
        THEN <<[error |-> <<"Trufflehog not found. Is it installed and in PATH?">>]>>
        ELSE <<[error |-> <<"Trufflehog scan failed: ", e>>]>>]

\* score = min(len(findings), 25); details = findings[:20] or the sentinel
FindingsReport(fs) ==
    [agent |-> "credential_scan", score |-> Min(Len(fs), ScoreCap),
     details |-> IF fs # <<>> THEN SubSeq(fs, 1, Min(Len(fs), DetailsCap))
                 ELSE <<Sentinel>>]

\* `return rep`: to the caller, or into the finally clause of scan_github_repo
Return(rep) ==
    /\ report' = rep
    /\ IF mode = "url"
       THEN pc' = "finally" /\ ret' = ret
       ELSE pc' = "done" /\ ret' = rep

\* what is remembered of one invocation
Summary(o) == [kind |-> o.kind, returncode |-> o.returncode, stderr |-> o.stderr]

Invoke1 ==
    /\ pc = "invoke1"
    /\ \E o \in RunOutcomes :
         /\ runs' = Append(runs, Summary(o))
         /\ IF RunRaises(o)
            THEN Return(ErrorReport(o.kind)) /\ result' = result
            ELSE IF NeedsRetry(o)
            THEN pc' = "invoke2" /\ result' = result /\ UNCHANGED <<report, ret>>
            ELSE pc' = "parse" /\ result' = o /\ UNCHANGED <<report, ret>>
    /\ UNCHANGED <<mode, temp_dir, rm_tried, rm_ok, exc, i, findings, spy, found, tree>>
    /\ UNCHANGED lvars

Invoke2 ==
    /\ pc = "invoke2"
    /\ \E o \in RunOutcomes :
         /\ runs' = Append(runs, Summary(o))
         /\ IF RunRaises(o)
            THEN Return(ErrorReport(o.kind)) /\ result' = result
            ELSE pc' = "parse" /\ result' = o /\ UNCHANGED <<report, ret>>
    /\ UNCHANGED <<mode, temp_dir, rm_tried, rm_ok, exc, i, findings, spy, found, tree>>
    /\ UNCHANGED lvars

\* one iteration of `for line in result.stdout.splitlines()`
ParseLine ==
    /\ pc = "parse"
    /\ i < Len(result.stdout)
    /\ i' = i + 1
    /\ LET line == result.stdout[i + 1] IN
       IF line.t # "json"
       THEN /\ spy' = FALSE /\ found' = NotFound
            /\ UNCHANGED <<pc, findings, report, ret>>
       ELSE LET b == Body(line.v, tree) IN
            /\ spy' = b.spy /\ found' = b.found
            /\ IF b.t = "raise"
               THEN Return(ErrorReport(b.e)) /\ findings' = findings
               ELSE /\ findings' = Append(findings, b.finding)
                    /\ UNCHANGED <<pc, report, ret>>
    /\ UNCHANGED <<mode, temp_dir, rm_tried, rm_ok, exc, runs, result, tree>>
    /\ UNCHANGED lvars

\* after the loop: lines 100-106
ReturnReport ==
    /\ pc = "parse"
    /\ i = Len(result.stdout)
    /\ Return(FindingsReport(findings))
    /\ UNCHANGED <<mode, temp_dir, rm_tried, rm_ok, exc, runs, result,
                   i, findings, spy, found, tree>>
    /\ UNCHANGED lvars

----------------------------------------------------------------------------
(* scan_github_repo *)

\* variant: `except` in place of `finally` lets a clone failure skip the removal
AfterClone_skip(ok) == IF ok THEN "invoke1" ELSE "done"

\* where control goes after Repo.clone_from: on, or through the finally
\* clause with the exception pending
AfterClone(ok) == IF ok THEN "invoke1" ELSE "finally"

\* tempfile.mkdtemp() is outside the try
Mkdtemp ==
    /\ pc = "start" /\ mode = "url"
    /\ \/ temp_dir' = "exists" /\ pc' = "clone" /\ exc' = exc
       \/ temp_dir' = temp_dir /\ pc' = "done" /\ exc' = "OSError"
    /\ UNCHANGED <<mode, rm_tried, rm_ok, ret, runs, result,
                   i, findings, spy, found, report, tree>>
    /\ UNCHANGED lvars

Clone ==
    /\ pc = "clone"
    /\ \E ok \in BOOLEAN :
         /\ pc' = AfterClone(ok)
         /\ IF ok
            THEN tree' \in ScanTrees /\ exc' = exc
            ELSE tree' = tree /\ exc' = "GitCommandError"
    /\ UNCHANGED <<mode, temp_dir, rm_tried, rm_ok, ret, runs, result,
                   i, findings, spy, found, report>>
    /\ UNCHANGED lvars

\* the finally clause: shutil.rmtree(temp_dir, ignore_errors=True) raises
\* nothing, then the pending return or exception goes on
Rmtree ==
    /\ pc = "finally"
    /\ \E ok \in BOOLEAN :
         /\ rm_tried' = TRUE
         /\ rm_ok' = ok
         /\ temp_dir' = IF ok THEN "removed" ELSE "exists"
         /\ exc' = exc
         /\ ret' = IF exc = "none" THEN report ELSE ret
    /\ pc' = "done"
    /\ UNCHANGED <<mode, runs, result, i, findings, spy, found, report, tree>>
    /\ UNCHANGED lvars

\* a scan of a local path starts at the detector, a scan of a URL at mkdtemp
StartLocal ==
    /\ pc = "start" /\ mode = "path"
    /\ pc' = "invoke1"
    /\ UNCHANGED <<mode, temp_dir, rm_tried, rm_ok, exc, ret, runs, result,
                   i, findings, spy, found, report, tree>>
    /\ UNCHANGED lvars

Init ==
    /\ lpc = "idle" /\ needle = None /\ res1 = NoRes /\ res2 = NoRes
    /\ mode \in {"path", "url"}
    /\ pc = "start"
    /\ tree \in (IF mode = "path" THEN ScanTrees ELSE {<<>>})
    /\ temp_dir = "none" /\ rm_tried = FALSE /\ rm_ok = FALSE
    /\ exc = "none" /\ ret = None
    /\ runs = <<>> /\ result = None
    /\ i = 0 /\ findings = <<>> /\ spy = FALSE /\ found = NotFound
    /\ report = None

Next ==
    \/ StartLocal
    \/ Mkdtemp
    \/ Clone
    \/ Invoke1
    \/ Invoke2
    \/ ParseLine
    \/ ReturnReport
    \/ Rmtree

Spec == Init /\ [][Next]_vars

----------------------------------------------------------------------------
(* Properties of locate_secret_in_repo *)

\* line contains s as a literal substring
Contains(line, s) ==
    \E a \in 0..(Len(line) - Len(s)) : SubSeq(line, a + 1, a + Len(s)) = s

MinOf(S) == CHOOSE x \in S : \A y \in S : x <= y

MatchingLines(e, s) == {n \in 1..Len(e.lines) : Contains(e.lines[n], s)}

\* the reference: first readable file, in traversal order, with a matching
\* line, and the first such line in it
LocateRef(t, nd) ==
    IF nd = None \/ nd.s = <<>> THEN NotFound
    ELSE LET H == {j \in 1..Len(t) :
                      t[j].kind = "file" /\ MatchingLines(t[j], nd.s) # {}}
         IN IF H = {} THEN NotFound
            ELSE [file |-> Str(t[MinOf(H)].path),
                  line |-> Num(MinOf(MatchingLines(t[MinOf(H)], nd.s)))]

\* C8: on every file tree and every str or absent needle the search returns
\* what the reference gives (first readable file with a matching line, first
\* such line, 1-based; not-found otherwise), raises nothing, opens no file
\* for an empty or absent needle, and a second call on the unchanged tree
\* returns the same result.
C8_LocateMatchesReference ==
    /\ lpc \in {"call2", "done"} =>
         /\ res1.loc = LocateRef(tree, needle)
         /\ ~res1.raised
         /\ (needle = None \/ needle = Str(<<>>)) => res1.opened = 0
    /\ lpc = "done" => res2 = res1

\* an unreadable file holding the needle comes first; the readable file
\* after it matches on its second line only
C8_Witness ==
    /\ lpc = "done"
    /\ needle = Str(<<"a">>)
    /\ Len(tree) = 2
    /\ tree[1].kind = "denied" /\ tree[1].lines = << <<"a">> >>
    /\ tree[2].kind = "file" /\ tree[2].lines = << <<"b">>, <<"b", "a">> >>
    /\ res1.loc = [file |-> Str(PathOf(2)), line |-> Num(2)]
    /\ res1.opened = 2

----------------------------------------------------------------------------
(* Properties of the scan *)

\* run_credential_scan_agent has returned
Returned == report # None
\* the detector invocation returned output
GotOutput == result # None

IsError(rep) == Len(rep.details) = 1 /\ "error" \in DOMAIN rep.details[1]

ParsedLines(out) == {j \in 1..Len(out) : out[j].t = "json"}

\* C1: the score of the report for any detector output is min(F, 25), F the
\* number of findings built from the output, and lies in 0..25.
C1_ScoreIsCappedCount ==
    (Returned /\ GotOutput) =>
        /\ report.score \in 0..25
        /\ report.score = Min(Len(findings), 25)

\* C2: for any detector output, details has at most 20 entries: the first
\* min(F, 20) findings when there is a finding, otherwise exactly one
\* sentinel entry with an info key and none of file, line, detector, raw.
C2_DetailsAreFirstTwenty ==
    (Returned /\ GotOutput) =>
        /\ Len(report.details) <= 20
        /\ IF findings # <<>>
           THEN report.details = SubSeq(findings, 1, Min(Len(findings), 20))
           ELSE /\ Len(report.details) = 1
                /\ "info" \in DOMAIN report.details[1]
                /\ DOMAIN report.details[1] \cap {"file", "line", "detector", "raw"} = {}

\* C3: an output of N lines that parse as JSON and M blank or unparsable
\* lines is normalized to exactly N findings and a non-error report.
C3_MalformedLinesNeverAbort ==
    (Returned /\ GotOutput) =>
        /\ ~IsError(report)
        /\ Len(findings) = Cardinality(ParsedLines(result.stdout))

\* C6: an error report is returned exactly when the detector invocation
\* failed; it has score 0 and one entry with key error and no info key, and
\* no line was normalized; once output was returned no error report follows.
C6_ErrorOnlyFromInvocation ==
    Returned =>
        /\ IsError(report) <=> ~GotOutput
        /\ IsError(report) =>
             /\ report.score = 0
             /\ "info" \notin DOMAIN report.details[1]
             /\ i = 0

----------------------------------------------------------------------------
(* The fallback search inside the loop *)

\* the line the loop body ran on last
LastLine == result.stdout[i]

\* a JSON object whose SourceMetadata and SourceMetadata.Data, where given,
\* are objects
IsRecord(v) ==
    /\ v.k = "dict"
    /\ "SourceMetadata" \in DOMAIN v.f =>
         /\ v.f["SourceMetadata"].k = "dict"
         /\ "Data" \in DOMAIN v.f["SourceMetadata"].f =>
              v.f["SourceMetadata"].f["Data"].k = "dict"

\* what the detector record gives for a top-level key, None when it is absent
Top(v, key) == IF key \in DOMAIN v.f THEN v.f[key] ELSE None

\* what the detector record gives at SourceMetadata.Data.key
Supplied(v, key) ==
    IF /\ "SourceMetadata" \in DOMAIN v.f
       /\ "Data" \in DOMAIN v.f["SourceMetadata"].f
       /\ key \in DOMAIN v.f["SourceMetadata"].f["Data"].f
    THEN v.f["SourceMetadata"].f["Data"].f[key]
    ELSE None

\* absent, or present and false in a condition: null, the empty string,
\* zero, the empty object
Void(v) == v \in {None, Str(<<>>), Num(0), Dict(<<>>)}

OnRecord == GotOutput /\ i >= 1 /\ LastLine.t = "json" /\ IsRecord(LastLine.v)

Appended ==
    /\ GotOutput /\ i >= 1 /\ LastLine.t = "json"
    /\ pc = "parse" \/ (Returned /\ ~IsError(report))

\* C10: when the search was invoked the Finding's file and line are the pair
\* it returned, both present or both absent, whatever the record supplied;
\* when it was not invoked they are the record's values; raw and detector
\* are always the record's own.
C10_FindingTakesRecoveredPair ==
    Appended =>
        LET f == findings[Len(findings)]
            v == LastLine.v
        IN /\ f.raw = Top(v, "Raw")
           /\ f.detector = Top(v, "DetectorName")
           /\ spy =>
                /\ f.file = found.file /\ f.line = found.line
                /\ f.file = None <=> f.line = None
                /\ f.raw.k = "str" =>
                     [file |-> f.file, line |-> f.line] = LocateRef(tree, f.raw)
           /\ ~spy =>
                /\ f.file = Supplied(v, "file")
                /\ f.line = Supplied(v, "line")

\* the record supplied a file but no line; the search replaced the file
C10_Witness ==
    /\ Appended /\ spy
    /\ Supplied(LastLine.v, "file") = Str(<<"x">>)
    /\ Supplied(LastLine.v, "line") = None
    /\ findings[Len(findings)].file = Str(PathOf(2))
    /\ findings[Len(findings)].line = Num(2)

----------------------------------------------------------------------------
(* The detector invocation *)

FlagSignalled(r) ==
    r.kind = "ran" /\ r.returncode # 0 /\ Contains(r.stderr, FlagMsg)

\* C7: the detector is invoked at most twice; the second invocation happens
\* exactly when the first ran, exited non-zero and signalled the unknown
\* --path flag; an unresolvable detector on the first invocation is not
\* retried and gives the not-found error report.
C7_AtMostOneRetry ==
    /\ Len(runs) <= 2
    /\ pc = "invoke2" => Len(runs) = 1
    /\ (Len(runs) >= 1 /\ pc # "invoke2") =>
         (Len(runs) = 2 <=> FlagSignalled(runs[1]))
    /\ (Len(runs) >= 1 /\ pc = "invoke2") => FlagSignalled(runs[1])
    /\ (Len(runs) >= 1 /\ runs[1].kind = "FileNotFoundError") =>
         /\ Len(runs) = 1
         /\ report = ErrorReport("FileNotFoundError")

\* a retried scan that went on to build findings
C7_Witness ==
    /\ Len(runs) = 2 /\ FlagSignalled(runs[1])
    /\ pc = "done" /\ Returned /\ report.score >= 1

\* the first invocation failed for another reason and was not retried
C7_WitnessNoRetry ==
    /\ Len(runs) = 1 /\ runs[1].kind = "ran" /\ runs[1].returncode # 0
    /\ pc = "done" /\ Returned

\* the report as a function of the standard output and the tree alone
RECURSIVE Normalize(_, _, _, _)
Normalize(out, repo, n, fs) ==
    IF n > Len(out) THEN FindingsReport(fs)
    ELSE IF out[n].t # "json" THEN Normalize(out, repo, n + 1, fs)
    ELSE LET b == Body(out[n].v, repo) IN
         IF b.t = "raise" THEN ErrorReport(b.e)
         ELSE Normalize(out, repo, n + 1, Append(fs, b.finding))

\* the invocation whose result is used: the last one, once no retry is due
Final == runs[Len(runs)]
Settled == Len(runs) >= 1 /\ pc # "invoke2"

\* C9: the report depends on the standard output of the invocation finally
\* used (and the tree), not on its exit status: whenever that invocation
\* ran, its output is parsed and the report returned is the normalization
\* of that output, for a zero and a non-zero exit alike.
C9_ExitStatusNotUsed ==
    (Settled /\ Final.kind = "ran") =>
        /\ GotOutput
        /\ result.returncode = Final.returncode
        /\ Returned => report = Normalize(result.stdout, tree, 1, <<>>)

\* a non-zero exit with findings in the output
C9_Witness ==
    /\ pc = "done" /\ GotOutput /\ result.returncode # 0
    /\ Returned /\ ~IsError(report) /\ report.score >= 1

----------------------------------------------------------------------------
(* The workspace of a URL scan *)

\* C5: once the temporary directory exists, the call ends only after an
\* attempt to remove it; the attempt, failed or not, leaves the report to
\* return and the exception to raise as they were; a clone failure is
\* raised and never returned as a report.
C5_WorkspaceAlwaysReleased ==
    (mode = "url" /\ pc = "done") =>
        /\ temp_dir # "none" => rm_tried
        /\ exc = "GitCommandError" => (ret = None /\ ~Returned)
        /\ Returned => (exc = "none" /\ ret = report)
        /\ rm_tried => (exc = "GitCommandError" \/ Returned)

\* the removal failed and the report of the scan is returned all the same
C5_Witness ==
    /\ mode = "url" /\ pc = "done"
    /\ rm_tried /\ ~rm_ok /\ temp_dir = "exists"
    /\ ret = report /\ Returned /\ ~IsError(report)

\* the clone failed and the removal was still attempted
C5_WitnessCloneFailed ==
    /\ mode = "url" /\ pc = "done" /\ exc = "GitCommandError" /\ rm_tried

====
